---------------------------- MODULE Spec2Model ----------------------------
(***************************************************************************)
(* A model of libcaparoc's register access layer (src/src/caparoc.cpp):    *)
(* topology validation, address mapping, status decoding, string decoding  *)
(* and the lock / write / verify / re-lock handshake of                     *)
(* set_nominal_current.  Every transport call of the code is one step of   *)
(* the calling process; the transport may fail any call.                   *)
(***************************************************************************)
EXTENDS Integers, Sequences, FiniteSets, TLC

(***************************************************************************)
(* Bounds of the model.                                                    *)
(***************************************************************************)
\* Largest number of modules a modelled device chain holds.
MaxModules == 2
\* Number of API calls one behaviour makes.
MaxCalls == 2
\* Module-number arguments range over 0..MaxModuleArg.
MaxModuleArg == 3
\* Channel-number arguments range over 0..MaxChannelArg.
MaxChannelArg == 5
\* Largest module count a device out of specification reports.
MaxReportedModules == 17
\* Largest channel count a device out of specification reports for a module.
MaxReportedChannels == 5
\* Status words 0..2^StatusBits-1 are enumerated (plus words with high bits).
StatusBits == 8

(***************************************************************************)
(* Program constants.                                                      *)
(***************************************************************************)
kRetries == 5
kDelay == 50
kDefaultBusCycle == 100
kSettleMargin == 50
kPostWriteSettle == 100
kStride == 4
kMaxModuleNumber == 16
kStringRegisters == 16

ModuleCountAddress == \h2000
ChannelCountBase == \h2001
ProductNameModuleBase == \h1010
ProductNamePowerModule == \h1000
ProductNameQuint == \h1110
GlobalStatusAddress == \h6000
MaxBusCycleAddress == \h6006
ChannelStatusBase == \h6010
LoadCurrentBase == \h6050
global_lock_address == \hC001
ControlBase == \hC010
NominalCurrentBase == \hC050
ChannelLockBase == \hC090

\* uint16_t arithmetic
U16(x) == x % 65536

(***************************************************************************)
(* Processes: the threads that call into the library.  The serialized      *)
(* specification runs Main alone.                                          *)
(***************************************************************************)
Procs == {1, 2}
Main == 1

VARIABLES
    channels,   \* device topology: channels[m] is the channel count register
                \* of module m, Len(channels) the connected-module register
    mem,        \* device read-write registers that differ from power-on
    calls,      \* number of API calls started so far
    proc        \* per process: position, arguments, locals, result, history

vars == <<channels, mem, calls, proc>>


(***************************************************************************)
(* The device behind the connection.                                       *)
(***************************************************************************)
\* The read-write register area 0xC000..0xC0FF (locks, on/off control,
\* nominal currents).
Writable == \hC000 .. \hC0FF

ChannelLockRange == ChannelLockBase .. (ChannelLockBase + 63)

NominalCurrentRange == NominalCurrentBase .. (NominalCurrentBase + 63)

\* Register content after power-on: every lock locked (1), nominal currents
\* at 6 A, everything else 0.
PowerOn(a) ==
    IF a = global_lock_address \/ a \in ChannelLockRange THEN 1
    ELSE IF a \in NominalCurrentRange THEN 6
    ELSE 0

\* Content of read-write register a in register file m.
Load(m, a) == IF a \in DOMAIN m THEN m[a] ELSE PowerOn(a)

\* Register file m with value v stored at a.
Store(m, a, v) ==
    IF v = PowerOn(a)
    THEN [x \in (DOMAIN m) \ {a} |-> m[x]]
    ELSE [x \in (DOMAIN m) \cup {a} |-> IF x = a THEN v ELSE m[x]]

\* What the device answers for register a; x is the present content of a
\* register the model keeps no state for (measurements, names).
RegisterValue(a, x) ==
    IF a = ModuleCountAddress THEN Len(channels)
    ELSE IF a \in ChannelCountBase .. (ChannelCountBase + kMaxModuleNumber - 1)
         THEN LET m == a - ChannelCountBase + 1
              IN  IF m <= Len(channels) THEN channels[m] ELSE 0
    ELSE IF a \in Writable THEN Load(mem, a)
    ELSE x

\* The device takes a write of a nominal-current register only while the
\* global lock and the channel's own lock are both open and it has sampled
\* them (settled); any other read-write register takes every write.
DeviceTakes(m, a, settled) ==
    IF a \in NominalCurrentRange
    THEN /\ settled
         /\ Load(m, global_lock_address) = 0
         /\ Load(m, a - NominalCurrentBase + ChannelLockBase) = 0
    ELSE TRUE

\* ModbusConnection::write_register: the register file after the call.
conn_write_register(m, ok, a, v, settled) ==
    IF ok /\ DeviceTakes(m, a, settled) THEN Store(m, a, v) ELSE m

\* ModbusConnection::read_register / read_registers: the call's result.
conn_read_register(ok, a, x) ==
    IF ok THEN [ok |-> TRUE, value |-> RegisterValue(a, x)]
    ELSE [ok |-> FALSE, value |-> 0]

(***************************************************************************)
(* Generic register access (caparoc.cpp, 18-61).                          *)
(***************************************************************************)
nullopt == [has |-> FALSE, value |-> 0]

Some(v) == [has |-> TRUE, value |-> v]

read_uint16(ok, address, x) ==
    LET r == conn_read_register(ok, address, x)
    IN  IF ~r.ok THEN nullopt ELSE Some(r.value)

RECURSIVE BitAnd(_, _)
\* a & b on non-negative integers
BitAnd(a, b) ==
    IF a = 0 \/ b = 0 THEN 0
    ELSE (a % 2) * (b % 2) + 2 * BitAnd(a \div 2, b \div 2)

\* x >> 8
ShiftRight8(x) == x \div 256

npos == -1

\* std::string::find: the 0-based position of the first occurrence of
\* needle in s, or npos.
find(s, needle) ==
    LET hits == {i \in 0 .. (Len(s) - Len(needle)) :
                    SubSeq(s, i + 1, i + Len(needle)) = needle}
    IN  IF hits = {} THEN npos
        ELSE CHOOSE i \in hits : \A j \in hits : i <= j

\* RegisterBytes with the low byte of each register first.
RegisterBytes_LowFirst(values) ==
    [i \in 1 .. (2 * kStringRegisters) |->
        IF i % 2 = 1 THEN BitAnd(values[(i + 1) \div 2], 255)
        ELSE BitAnd(ShiftRight8(values[i \div 2]), 255)]

\* The 32 bytes of 16 registers, high byte of each register first.
RegisterBytes(values) ==
    [i \in 1 .. (2 * kStringRegisters) |->
        IF i % 2 = 1 THEN BitAnd(ShiftRight8(values[(i + 1) \div 2]), 255)
        ELSE BitAnd(values[i \div 2], 255)]

\* The string of 16 registers: their bytes up to the first null byte.
DecodeString32(values) ==
    LET result == RegisterBytes(values)
        end == find(result, <<0>>)
    IN  IF end # npos THEN SubSeq(result, 1, end) ELSE result

read_string32(ok, address, x) ==
    LET r == conn_read_register(ok, address, x)
    IN  IF ~r.ok THEN nullopt ELSE Some(DecodeString32(r.value))

(***************************************************************************)
(* Topology and validation (caparoc.cpp, 75-106 and 291-302).             *)
(***************************************************************************)
get_number_of_connected_modules(ok) == read_uint16(ok, ModuleCountAddress, 0)

\* get_number_of_channels_for_module answering the 4 channels of the
\* largest module instead of what the device reports.
get_number_of_channels_for_module_Static(ok, module_number) ==
    IF module_number < 1 \/ module_number > kMaxModuleNumber THEN nullopt
    ELSE IF ok THEN Some(4) ELSE nullopt

get_number_of_channels_for_module(ok, module_number) ==
    IF module_number < 1 \/ module_number > kMaxModuleNumber THEN nullopt
    ELSE read_uint16(ok, ChannelCountBase + (module_number - 1), 0)

\* TRUE iff validate_module_number returns without throwing.
validate_module_number(ok, module_number) ==
    LET num_modules_opt == get_number_of_connected_modules(ok)
    IN  /\ num_modules_opt.has
        /\ ~(module_number < 1 \/ module_number > num_modules_opt.value)

\* validate_channel_number with the upper limit off by one.
validate_channel_number_OffByOne(ok, module_number, channel_number) ==
    LET num_channels_opt == get_number_of_channels_for_module(ok, module_number)
    IN  /\ num_channels_opt.has
        /\ ~(channel_number < 1 \/ channel_number > num_channels_opt.value + 1)

\* TRUE iff validate_channel_number returns without throwing.
validate_channel_number(ok, module_number, channel_number) ==
    LET num_channels_opt == get_number_of_channels_for_module(ok, module_number)
    IN  /\ num_channels_opt.has
        /\ ~(channel_number < 1 \/ channel_number > num_channels_opt.value)

(***************************************************************************)
(* Address mapping: base + (module - 1) * 4 + (channel - 1), as uint16_t.  *)
(***************************************************************************)
\* nominal_current_address with the module stride forgotten.
nominal_current_address_NoStride(module_number, channel_number) ==
    U16(NominalCurrentBase + (module_number - 1) + (channel_number - 1))

nominal_current_address(module_number, channel_number) ==
    U16(NominalCurrentBase + (module_number - 1) * kStride + (channel_number - 1))

\* channel_lock_address of the module's first channel whatever the channel.
channel_lock_address_NoChannel(module_number, channel_number) ==
    U16(ChannelLockBase + (module_number - 1) * kStride)

channel_lock_address(module_number, channel_number) ==
    U16(ChannelLockBase + (module_number - 1) * kStride + (channel_number - 1))

channel_status_address(module_number, channel_number) ==
    U16(ChannelStatusBase + (module_number - 1) * kStride + (channel_number - 1))

load_current_address(module_number, channel_number) ==
    U16(LoadCurrentBase + (module_number - 1) * kStride + (channel_number - 1))

control_address(module_number, channel_number) ==
    U16(ControlBase + (module_number - 1) * kStride + (channel_number - 1))

product_name_module_address(module_number) ==
    U16(ProductNameModuleBase + (module_number - 1) * 16)

(***************************************************************************)
(* Status decoding (caparoc.cpp, 522-536 and 558-578).                    *)
(***************************************************************************)
DecodeGlobalStatus(val) ==
    [undervoltage |-> BitAnd(val, 1) # 0,
     overvoltage |-> BitAnd(val, 2) # 0,
     cumulative_channel_error |-> BitAnd(val, 4) # 0,
     cumulative_80_warning |-> BitAnd(val, 8) # 0,
     system_current_too_high |-> BitAnd(val, 16) # 0]

\* DecodeChannelStatus with the masks of overload and short circuit swapped.
DecodeChannelStatus_Swapped(val) ==
    [warning_80_percent |-> BitAnd(val, 1) # 0,
     overload |-> BitAnd(val, 4) # 0,
     short_circuit |-> BitAnd(val, 2) # 0,
     hardware_error |-> BitAnd(val, 8) # 0,
     voltage_error |-> BitAnd(val, 16) # 0,
     module_current_too_high |-> BitAnd(val, 32) # 0,
     system_current_too_high |-> BitAnd(val, 64) # 0]

DecodeChannelStatus(val) ==
    [warning_80_percent |-> BitAnd(val, 1) # 0,
     overload |-> BitAnd(val, 2) # 0,
     short_circuit |-> BitAnd(val, 4) # 0,
     hardware_error |-> BitAnd(val, 8) # 0,
     voltage_error |-> BitAnd(val, 16) # 0,
     module_current_too_high |-> BitAnd(val, 32) # 0,
     system_current_too_high |-> BitAnd(val, 64) # 0]

\* "CAPAROC E2 12-24DC/2-10A", the model whose nominal current is set by
\* rotary dials only.
DialOnlyName ==
    <<67, 65, 80, 65, 82, 79, 67, 32, 69, 50, 32, 49, 50, 45, 50, 52,
      68, 67, 47, 50, 45, 49, 48, 65>>

\* IsDialOnly comparing for equality instead of searching.
IsDialOnly_Exact(product_name_opt) ==
    product_name_opt.has /\ product_name_opt.value = DialOnlyName

\* The precondition of set_nominal_current on the product name read.
\* IsDialOnly taking a name that could not be read for a dial-only one.
IsDialOnly_FailClosed(product_name_opt) ==
    ~product_name_opt.has \/ find(product_name_opt.value, DialOnlyName) # npos

IsDialOnly(product_name_opt) ==
    product_name_opt.has /\ find(product_name_opt.value, DialOnlyName) # npos

(***************************************************************************)
(* What the environment may present.                                       *)
(***************************************************************************)
\* Channel counts of the modules of a chain.
ChannelCounts == {2, 4}

RECURSIVE SeqsUpTo(_, _)
\* All sequences over S of length at most n.
SeqsUpTo(S, n) ==
    IF n = 0 THEN {<<>>}
    ELSE LET shorter == SeqsUpTo(S, n - 1)
         IN  shorter \cup {Append(t, x) : t \in shorter, x \in S}

\* The device chains: up to MaxModules modules of 2 or 4 channels each.
Topologies == SeqsUpTo(ChannelCounts, MaxModules)

\* 16 registers holding the bytes of s, two per register, high byte first,
\* padded with null bytes.
Pack(s) ==
    [i \in 1 .. kStringRegisters |->
        (IF 2 * i - 1 <= Len(s) THEN s[2 * i - 1] ELSE 0) * 256
        + (IF 2 * i <= Len(s) THEN s[2 * i] ELSE 0)]

\* "CAPAROC E4 12-24DC/1-10A", an electronically adjustable module.
AdjustableName ==
    <<67, 65, 80, 65, 82, 79, 67, 32, 69, 52, 32, 49, 50, 45, 50, 52,
      68, 67, 47, 49, 45, 49, 48, 65>>

\* Product-name registers of modules: the dial-only model, the dial-only
\* name inside a 32-byte name without null byte, an adjustable model.
ModuleNameImages ==
    {Pack(DialOnlyName),
     Pack(<<80, 88, 67, 32, 50, 46, 48, 32>> \o DialOnlyName),
     Pack(AdjustableName)}

\* Register words a string field is made of: "\0\0", "A\0", "\0A", "AB".
StringWords == {0, 16640, 65, 16706}

\* String fields: "ABC" and zeros, 32 bytes without a null byte, a null
\* byte followed by text, and every field whose first three registers are
\* StringWords and whose rest is all zero or all "XX".
StringImages ==
    {Pack(<<65, 66, 67>>),
     Pack([i \in 1 .. 32 |-> 64 + i]),
     Pack(<<65, 0>> \o DialOnlyName)}
    \cup {[i \in 1 .. kStringRegisters |->
              IF i = 1 THEN a ELSE IF i = 2 THEN b ELSE IF i = 3 THEN c ELSE f] :
          a \in StringWords, b \in StringWords, c \in StringWords,
          f \in {0, 22616}}

\* Status words: every combination of the low StatusBits bits, alone and
\* with all higher bits set.
StatusWords ==
    LET low == 0 .. (2 ^ StatusBits - 1)
    IN  low \cup {w + (65536 - 2 ^ StatusBits) : w \in low}

\* The status words the serialized API specification presents.
FewStatusWords == {0, 21, 127, 65408}

\* Reported maximum bus cycle (ms) and load currents.
BusCycles == {20}

LoadCurrents == {1500}

\* Nominal currents requested.
NominalValues == {10}

(***************************************************************************)
(* Processes.                                                              *)
(***************************************************************************)
IndexedOps ==
    {"set_nominal_current", "get_nominal_current", "get_channel_status",
     "get_load_current", "control_channel"}

Ops ==
    IndexedOps \cup {"get_product_name_module", "get_product_name_power_module",
                     "get_global_status"}

NoRet == [kind |-> "none", value |-> 0]

NoRead == [ok |-> FALSE, address |-> 0, value |-> 0]

\* The history entry of a transport read of address with result r.
Raw(address, r) == [ok |-> r.ok, address |-> address, value |-> r.value]

\* A process outside any call.
IdleProc ==
    [pc |-> "idle", op |-> "none",
     module_number |-> 0, channel_number |-> 0, nominal_current |-> 0,
     on |-> FALSE,
     attempt |-> 0, verified |-> FALSE,
     ret |-> NoRet,
     \* history of the call in progress
     raw |-> NoRead,        \* its latest transport read and the result
     validated |-> FALSE,   \* whether validate_channel_number has returned
     lockWrites |-> <<>>,   \* its writes of lock registers, in order
     nomWrites |-> 0,       \* number of its nominal-current register writes
     matched |-> FALSE,     \* whether a read-back equalled nominal_current
     touched |-> {},        \* the addresses it has issued a write to
     slept |-> 0,           \* ms blocked since its latest write (or its start)
     \* history of the previous call: the (module, channel) it had passed
     \* validation with when it ended, <<0, 0>> if it had not
     lastAccepted |-> <<0, 0>>]

\* The process after throwing std::invalid_argument.
Thrown(s) == [s EXCEPT !.pc = "done", !.ret = [kind |-> "throw", value |-> 0]]

\* The process after returning value v of the given kind.
Returned(s, kind, v) == [s EXCEPT !.pc = "done", !.ret = [kind |-> kind, value |-> v]]

\* The process after std::this_thread::sleep_for(ms).
Slept(s, ms) == [s EXCEPT !.slept = @ + ms]

\* The process after issuing a write of a lock register.
LockWritten(s, address, value, ok) ==
    [s EXCEPT !.lockWrites = Append(@, [address |-> address, value |-> value, ok |-> ok]),
              !.touched = @ \cup {address}, !.slept = 0]

Init ==
    /\ channels \in Topologies
    /\ mem = [a \in {} |-> 0]
    /\ calls = 0
    /\ proc = [p \in Procs |-> IdleProc]

\* Where a call of op o begins.
Entry(o) ==
    CASE o \in IndexedOps -> "validate_module"
      [] o = "get_product_name_module" -> "name_validate"
      [] o = "get_product_name_power_module" -> "name_read"
      [] o = "get_global_status" -> "read_value"

\* Process p calls op o with the given arguments (v: the nominal current of
\* set_nominal_current, on/off as 1/0 of control_channel).
Call(p, o, m, c, v) ==
    /\ proc[p].pc = "idle"
    /\ o \in IndexedOps \/ c = 0
    /\ o \in IndexedOps \/ o = "get_product_name_module" \/ m = 0
    /\ CASE o = "set_nominal_current" -> v \in NominalValues
         [] o = "control_channel" -> v \in {0, 1}
         [] OTHER -> v = 0
    /\ calls' = calls + 1
    /\ proc' = [proc EXCEPT ![p] =
                   [IdleProc EXCEPT !.pc = Entry(o), !.op = o,
                                    !.lastAccepted = proc[p].lastAccepted,
                                    !.module_number = m, !.channel_number = c,
                                    !.nominal_current =
                                        IF o = "set_nominal_current" THEN v ELSE 0,
                                    !.on = (o = "control_channel" /\ v = 1)]]
    /\ UNCHANGED <<channels, mem>>

\* validate_module_number at the head of an indexed operation.
ValidateModule(p, ok) ==
    LET s == proc[p]
        t == [s EXCEPT !.raw = Raw(ModuleCountAddress,
                                   conn_read_register(ok, ModuleCountAddress, 0))]
    IN  /\ s.pc = "validate_module"
        /\ proc' = [proc EXCEPT ![p] =
              IF validate_module_number(ok, s.module_number)
              THEN [t EXCEPT !.pc = "validate_channel"]
              ELSE Thrown(t)]
        /\ UNCHANGED <<channels, mem, calls>>

\* validate_channel_number, then the operation's own body.
ValidateChannel(p, ok) ==
    LET s == proc[p]
        address == ChannelCountBase + (s.module_number - 1)
        \* get_number_of_channels_for_module reads nothing for a module
        \* number outside 1..16
        t == IF s.module_number < 1 \/ s.module_number > kMaxModuleNumber THEN s
             ELSE [s EXCEPT !.raw = Raw(address, conn_read_register(ok, address, 0))]
    IN  /\ s.pc = "validate_channel"
        /\ proc' = [proc EXCEPT ![p] =
              IF validate_channel_number(ok, s.module_number, s.channel_number)
              THEN [t EXCEPT !.validated = TRUE,
                             !.pc =
                      CASE s.op = "set_nominal_current" -> "name_validate"
                        [] s.op = "control_channel" -> "control_write"
                        [] OTHER -> "read_value"]
              ELSE Thrown(t)]
        /\ UNCHANGED <<channels, mem, calls>>

\* get_product_name_module, line 137: validate_module_number.
NameValidate(p, ok) ==
    LET s == proc[p]
        t == [s EXCEPT !.raw = Raw(ModuleCountAddress,
                                   conn_read_register(ok, ModuleCountAddress, 0))]
    IN  /\ s.pc = "name_validate"
        /\ proc' = [proc EXCEPT ![p] =
              IF validate_module_number(ok, s.module_number)
              THEN [t EXCEPT !.pc = "name_read"]
              ELSE Thrown(t)]
        /\ UNCHANGED <<channels, mem, calls>>

\* read_string32 of a product name; x: the registers' content.  Inside
\* set_nominal_current the dial-only check follows (lines 309-314).
NameRead(p, ok, x) ==
    LET s == proc[p]
        address == IF s.op = "get_product_name_power_module"
                   THEN ProductNamePowerModule
                   ELSE product_name_module_address(s.module_number)
        product_name_opt == read_string32(ok, address, x)
        t == [s EXCEPT !.raw = Raw(address, conn_read_register(ok, address, x))]
    IN  /\ s.pc = "name_read"
        /\ proc' = [proc EXCEPT ![p] =
              IF s.op = "set_nominal_current"
              THEN IF IsDialOnly(product_name_opt)
                   THEN Thrown(t)
                   ELSE [t EXCEPT !.pc = "bus_cycle"]
              ELSE Returned(t, "optional_string", product_name_opt)]
        /\ UNCHANGED <<channels, mem, calls>>

\* The single register read of get_nominal_current, get_channel_status,
\* get_load_current and get_global_status, and the decoding of its result.
ReadValue(p, ok, x) ==
    LET s == proc[p]
        address ==
            CASE s.op = "get_nominal_current" ->
                     nominal_current_address(s.module_number, s.channel_number)
              [] s.op = "get_channel_status" ->
                     channel_status_address(s.module_number, s.channel_number)
              [] s.op = "get_load_current" ->
                     load_current_address(s.module_number, s.channel_number)
              [] s.op = "get_global_status" -> GlobalStatusAddress
        val == read_uint16(ok, address, x)
        t == [s EXCEPT !.raw = Raw(address, conn_read_register(ok, address, x))]
    IN  /\ s.pc = "read_value"
        /\ proc' = [proc EXCEPT ![p] =
              CASE s.op = "get_global_status" ->
                     Returned(t, "optional_global_status",
                              IF ~val.has THEN nullopt
                              ELSE Some(DecodeGlobalStatus(val.value)))
                [] s.op = "get_channel_status" ->
                     Returned(t, "optional_channel_status",
                              IF ~val.has THEN nullopt
                              ELSE Some(DecodeChannelStatus(val.value)))
                [] OTHER -> Returned(t, "optional_uint16", val)]
        /\ UNCHANGED <<channels, mem, calls>>

\* control_channel, lines 592-593.
ControlWrite(p, ok) ==
    LET s == proc[p]
        address == control_address(s.module_number, s.channel_number)
    IN  /\ s.pc = "control_write"
        /\ mem' = conn_write_register(mem, ok, address, IF s.on THEN 1 ELSE 0, TRUE)
        /\ proc' = [proc EXCEPT ![p] =
                       Returned([s EXCEPT !.touched = @ \cup {address}, !.slept = 0],
                                "bool", ok)]
        /\ UNCHANGED <<channels, calls>>

(***************************************************************************)
(* set_nominal_current, lines 316-381, one step per transport call; the    *)
(* sleep that follows a call belongs to its step.                          *)
(***************************************************************************)
\* LoopHead with the cleanup of lines 363-365 forgotten: failed verification
\* returns false at once.
LoopHead_NoCleanup(s) ==
    IF s.attempt < kRetries THEN [s EXCEPT !.pc = "write_attempt"]
    ELSE IF ~s.verified THEN Returned(s, "bool", FALSE)
    ELSE [s EXCEPT !.pc = "relock_global"]

\* The for statement's test (line 348) and, when the loop is left, the test
\* of verified (line 362).
LoopHead(s) ==
    IF s.attempt < kRetries THEN [s EXCEPT !.pc = "write_attempt"]
    ELSE IF ~s.verified THEN [s EXCEPT !.pc = "cleanup_global"]
    ELSE [s EXCEPT !.pc = "relock_global"]

\* Continue with the attempt not counted.
Continue_NoCount(s) == LoopHead(s)

\* continue, or the end of the loop body: ++attempt and the test again.
Continue(s) == LoopHead([s EXCEPT !.attempt = @ + 1])

\* Break returning true from inside the loop, before the re-lock.
Break_ReturnEarly(s) == Returned([s EXCEPT !.verified = TRUE], "bool", TRUE)

\* break with verified set (lines 356-357), then the test of line 362.
Break(s) ==
    LET t == [s EXCEPT !.verified = TRUE]
    IN  IF ~t.verified THEN [t EXCEPT !.pc = "cleanup_global"]
        ELSE [t EXCEPT !.pc = "relock_global"]

\* BusCycle giving up when register 0x6006 cannot be read.
BusCycle_AbortOnFailure(p, ok, x) ==
    LET s == proc[p]
        max_cycle_opt == read_uint16(ok, MaxBusCycleAddress, x)
        t == [s EXCEPT !.raw = Raw(MaxBusCycleAddress,
                                   conn_read_register(ok, MaxBusCycleAddress, x))]
    IN  /\ s.pc = "bus_cycle"
        /\ proc' = [proc EXCEPT ![p] =
              IF ~max_cycle_opt.has THEN Returned(t, "bool", FALSE)
              ELSE Slept([t EXCEPT !.pc = "unlock_channel"],
                         max_cycle_opt.value + kSettleMargin)]
        /\ UNCHANGED <<channels, mem, calls>>

\* Lines 321-328: read the maximum bus cycle, wait for it plus 50 ms.
BusCycle(p, ok, x) ==
    LET s == proc[p]
        max_cycle_opt == read_uint16(ok, MaxBusCycleAddress, x)
        max_bus_cycle_ms == IF max_cycle_opt.has THEN max_cycle_opt.value
                            ELSE kDefaultBusCycle
        wait_time == max_bus_cycle_ms + kSettleMargin
    IN  /\ s.pc = "bus_cycle"
        /\ proc' = [proc EXCEPT ![p] =
              Slept([s EXCEPT !.pc = "unlock_channel",
                              !.raw = Raw(MaxBusCycleAddress,
                                          conn_read_register(ok, MaxBusCycleAddress, x))],
                    wait_time)]
        /\ UNCHANGED <<channels, mem, calls>>

\* UnlockChannel going on after a failed write.
UnlockChannel_IgnoreFailure(p, ok) ==
    LET s == proc[p]
        address == channel_lock_address(s.module_number, s.channel_number)
        t == LockWritten(s, address, 0, ok)
    IN  /\ s.pc = "unlock_channel"
        /\ mem' = conn_write_register(mem, ok, address, 0, TRUE)
        /\ proc' = [proc EXCEPT ![p] =
              Slept([t EXCEPT !.pc = "unlock_global"], kDelay)]
        /\ UNCHANGED <<channels, calls>>

\* Lines 337-340: unlock the channel.
UnlockChannel(p, ok) ==
    LET s == proc[p]
        address == channel_lock_address(s.module_number, s.channel_number)
        t == LockWritten(s, address, 0, ok)
    IN  /\ s.pc = "unlock_channel"
        /\ mem' = conn_write_register(mem, ok, address, 0, TRUE)
        /\ proc' = [proc EXCEPT ![p] =
              IF ~ok THEN Returned(t, "bool", FALSE)
              ELSE Slept([t EXCEPT !.pc = "unlock_global"], kDelay)]
        /\ UNCHANGED <<channels, calls>>

\* UnlockGlobal with the result of the write ignored.
UnlockGlobal_IgnoreFailure(p, ok) ==
    LET s == proc[p]
        t == LockWritten(s, global_lock_address, 0, ok)
    IN  /\ s.pc = "unlock_global"
        /\ mem' = conn_write_register(mem, ok, global_lock_address, 0, TRUE)
        /\ proc' = [proc EXCEPT ![p] =
              LoopHead(Slept([t EXCEPT !.attempt = 0, !.verified = FALSE], kDelay))]
        /\ UNCHANGED <<channels, calls>>

\* Lines 341-348: unlock globally, enter the write/verify loop.
UnlockGlobal(p, ok) ==
    LET s == proc[p]
        t == LockWritten(s, global_lock_address, 0, ok)
    IN  /\ s.pc = "unlock_global"
        /\ mem' = conn_write_register(mem, ok, global_lock_address, 0, TRUE)
        /\ proc' = [proc EXCEPT ![p] =
              IF ~ok THEN Returned(t, "bool", FALSE)
              ELSE LoopHead(Slept([t EXCEPT !.attempt = 0, !.verified = FALSE], kDelay))]
        /\ UNCHANGED <<channels, calls>>

\* WriteAttempt held back while the other process is inside its handshake.
WriteAttempt_Exclusive(p, ok, settled) ==
    LET s == proc[p]
        address == nominal_current_address(s.module_number, s.channel_number)
        t == [s EXCEPT !.nomWrites = @ + 1, !.touched = @ \cup {address},
                       !.slept = 0]
    IN  /\ s.pc = "write_attempt"
        /\ \A q \in Procs \ {p} :
              proc[q].pc \notin {"unlock_global", "write_attempt", "verify",
                                 "cleanup_global", "cleanup_channel",
                                 "relock_global", "relock_channel"}
        /\ ok \/ settled
        /\ mem' = conn_write_register(mem, ok, address, s.nominal_current, settled)
        /\ proc' = [proc EXCEPT ![p] =
              IF ~ok THEN Continue(Slept(t, kDelay))
              ELSE Slept([t EXCEPT !.pc = "verify"], kDelay)]
        /\ UNCHANGED <<channels, calls>>

\* Lines 349-353: write the nominal current.
WriteAttempt(p, ok, settled) ==
    LET s == proc[p]
        address == nominal_current_address(s.module_number, s.channel_number)
        t == [s EXCEPT !.nomWrites = @ + 1, !.touched = @ \cup {address},
                       !.slept = 0]
    IN  /\ s.pc = "write_attempt"
        /\ ok \/ settled
        /\ mem' = conn_write_register(mem, ok, address, s.nominal_current, settled)
        /\ proc' = [proc EXCEPT ![p] =
              IF ~ok THEN Continue(Slept(t, kDelay))
              ELSE Slept([t EXCEPT !.pc = "verify"], kDelay)]
        /\ UNCHANGED <<channels, calls>>

\* Verify taking any readable read-back for a match.
Verify_NoCompare(p, ok) ==
    LET s == proc[p]
        address == nominal_current_address(s.module_number, s.channel_number)
        verify == read_uint16(ok, address, 0)
        r == conn_read_register(ok, address, 0)
        t == [s EXCEPT !.raw = Raw(address, r),
                       !.matched = @ \/ (r.ok /\ r.value = s.nominal_current)]
    IN  /\ s.pc = "verify"
        /\ proc' = [proc EXCEPT ![p] =
              IF verify.has
              THEN Break(t)
              ELSE Continue(Slept(t, kDelay))]
        /\ UNCHANGED <<channels, mem, calls>>

\* Lines 354-359: read back and compare.
Verify(p, ok) ==
    LET s == proc[p]
        address == nominal_current_address(s.module_number, s.channel_number)
        verify == read_uint16(ok, address, 0)
        r == conn_read_register(ok, address, 0)
        t == [s EXCEPT !.raw = Raw(address, r),
                       !.matched = @ \/ (r.ok /\ r.value = s.nominal_current)]
    IN  /\ s.pc = "verify"
        /\ proc' = [proc EXCEPT ![p] =
              IF verify.has /\ verify.value = s.nominal_current
              THEN Break(t)
              ELSE Continue(Slept(t, kDelay))]
        /\ UNCHANGED <<channels, mem, calls>>

\* Line 364: after failed verification, re-lock globally, result ignored.
CleanupGlobal(p, ok) ==
    LET s == proc[p]
        t == LockWritten(s, global_lock_address, 1, ok)
    IN  /\ s.pc = "cleanup_global"
        /\ mem' = conn_write_register(mem, ok, global_lock_address, 1, TRUE)
        /\ proc' = [proc EXCEPT ![p] = [t EXCEPT !.pc = "cleanup_channel"]]
        /\ UNCHANGED <<channels, calls>>

\* Lines 365-366: re-lock the channel, result ignored; return false.
CleanupChannel(p, ok) ==
    LET s == proc[p]
        address == channel_lock_address(s.module_number, s.channel_number)
        t == LockWritten(s, address, 1, ok)
    IN  /\ s.pc = "cleanup_channel"
        /\ mem' = conn_write_register(mem, ok, address, 1, TRUE)
        /\ proc' = [proc EXCEPT ![p] = Returned(t, "bool", FALSE)]
        /\ UNCHANGED <<channels, calls>>

\* RelockGlobal putting the power-on value back into the nominal-current
\* register when the re-lock write fails.
RelockGlobal_Rollback(p, ok) ==
    LET s == proc[p]
        address == nominal_current_address(s.module_number, s.channel_number)
        t == LockWritten(s, global_lock_address, 1, ok)
    IN  /\ s.pc = "relock_global"
        /\ mem' = IF ~ok THEN Store(mem, address, PowerOn(address))
                  ELSE conn_write_register(mem, ok, global_lock_address, 1, TRUE)
        /\ proc' = [proc EXCEPT ![p] =
              IF ~ok THEN Returned(t, "bool", FALSE)
              ELSE Slept([t EXCEPT !.pc = "relock_channel"], kDelay)]
        /\ UNCHANGED <<channels, calls>>

\* Lines 370-373: after verification, re-lock globally.
RelockGlobal(p, ok) ==
    LET s == proc[p]
        t == LockWritten(s, global_lock_address, 1, ok)
    IN  /\ s.pc = "relock_global"
        /\ mem' = conn_write_register(mem, ok, global_lock_address, 1, TRUE)
        /\ proc' = [proc EXCEPT ![p] =
              IF ~ok THEN Returned(t, "bool", FALSE)
              ELSE Slept([t EXCEPT !.pc = "relock_channel"], kDelay)]
        /\ UNCHANGED <<channels, calls>>

\* Lines 374-381: re-lock the channel, settle, return true.
RelockChannel(p, ok) ==
    LET s == proc[p]
        address == channel_lock_address(s.module_number, s.channel_number)
        t == LockWritten(s, address, 1, ok)
    IN  /\ s.pc = "relock_channel"
        /\ mem' = conn_write_register(mem, ok, address, 1, TRUE)
        /\ proc' = [proc EXCEPT ![p] =
              IF ~ok THEN Returned(t, "bool", FALSE)
              ELSE Returned(Slept(t, kPostWriteSettle), "bool", TRUE)]
        /\ UNCHANGED <<channels, calls>>

\* The caller takes the result; the call's locals are gone.
Return(p) ==
    /\ proc[p].pc = "done"
    /\ proc' = [proc EXCEPT ![p] =
          [IdleProc EXCEPT !.lastAccepted =
              IF proc[p].validated
              THEN <<proc[p].module_number, proc[p].channel_number>>
              ELSE <<0, 0>>]]
    /\ UNCHANGED <<channels, mem, calls>>

\* Positions between the first lock write of set_nominal_current and its
\* return; the code reads no topology register there.
InHandshake(s) ==
    s.pc \in {"unlock_global", "write_attempt", "verify", "cleanup_global",
              "cleanup_channel", "relock_global", "relock_channel"}

\* Modules are added to or removed from the chain (hot swap).
HotSwap(t) ==
    /\ t \in Topologies
    /\ t # channels
    /\ \A p \in Procs : ~InHandshake(proc[p])
    /\ channels' = t
    /\ UNCHANGED <<mem, calls, proc>>

(***************************************************************************)
(* One call: process Main makes one API call against a device fresh from   *)
(* power-on, over a transport that may fail any read or write.             *)
(***************************************************************************)
Next ==
    \/ \E o \in Ops, m \in 0 .. MaxModuleArg, c \in 0 .. MaxChannelArg, v \in 0 .. 10 :
          calls = 0 /\ Call(Main, o, m, c, v)
    \/ \E ok \in BOOLEAN : ValidateModule(Main, ok)
    \/ \E ok \in BOOLEAN : ValidateChannel(Main, ok)
    \/ \E ok \in BOOLEAN : NameValidate(Main, ok)
    \/ \E ok \in BOOLEAN, x \in ModuleNameImages : NameRead(Main, ok, x)
    \/ \E ok \in BOOLEAN, x \in FewStatusWords \cup LoadCurrents : ReadValue(Main, ok, x)
    \/ \E ok \in BOOLEAN : ControlWrite(Main, ok)
    \/ \E ok \in BOOLEAN, x \in BusCycles : BusCycle(Main, ok, x)
    \/ \E ok \in BOOLEAN : UnlockChannel(Main, ok)
    \/ \E ok \in BOOLEAN : UnlockGlobal(Main, ok)
    \/ \E ok \in BOOLEAN, settled \in BOOLEAN : WriteAttempt(Main, ok, settled)
    \/ \E ok \in BOOLEAN : Verify(Main, ok)
    \/ \E ok \in BOOLEAN : CleanupGlobal(Main, ok)
    \/ \E ok \in BOOLEAN : CleanupChannel(Main, ok)
    \/ \E ok \in BOOLEAN : RelockGlobal(Main, ok)
    \/ \E ok \in BOOLEAN : RelockChannel(Main, ok)
    \/ Return(Main)
    \/ \E t \in Topologies : HotSwap(t)

Spec == Init /\ [][Next]_vars

(***************************************************************************)
(* A session: process Main makes up to MaxCalls calls, one after the       *)
(* other, while the chain may change.  The transport may fail the          *)
(* topology reads; after validation it is reliable here, and the device    *)
(* may still not take a nominal-current write.                             *)
(***************************************************************************)
NextSession ==
    \/ \E o \in IndexedOps, m \in 0 .. MaxModuleArg, c \in 0 .. MaxChannelArg, v \in 0 .. 10 :
          calls < MaxCalls /\ Call(Main, o, m, c, v)
    \/ \E ok \in BOOLEAN : ValidateModule(Main, ok)
    \/ \E ok \in BOOLEAN : ValidateChannel(Main, ok)
    \/ \E ok \in BOOLEAN : NameValidate(Main, ok)
    \/ \E x \in ModuleNameImages : NameRead(Main, TRUE, x)
    \/ \E x \in {0} : ReadValue(Main, TRUE, x)
    \/ ControlWrite(Main, TRUE)
    \/ \E x \in BusCycles : BusCycle(Main, TRUE, x)
    \/ UnlockChannel(Main, TRUE)
    \/ UnlockGlobal(Main, TRUE)
    \/ \E settled \in BOOLEAN : WriteAttempt(Main, TRUE, settled)
    \/ Verify(Main, TRUE)
    \/ CleanupGlobal(Main, TRUE)
    \/ CleanupChannel(Main, TRUE)
    \/ RelockGlobal(Main, TRUE)
    \/ RelockChannel(Main, TRUE)
    \/ Return(Main)
    \/ \E t \in Topologies : HotSwap(t)

SpecSession == Init /\ [][NextSession]_vars

(***************************************************************************)
(* Decoding: process Main reads status words and string fields of every    *)
(* enumerated content and decodes them.                                    *)
(***************************************************************************)
NextDecode ==
    \/ \E o \in {"get_global_status", "get_channel_status",
                 "get_product_name_power_module", "get_product_name_module"},
          m \in 0 .. MaxModuleArg, c \in 0 .. MaxChannelArg :
          calls = 0 /\ Call(Main, o, m, c, 0)
    \/ \E ok \in BOOLEAN : ValidateModule(Main, ok)
    \/ \E ok \in BOOLEAN : ValidateChannel(Main, ok)
    \/ \E ok \in BOOLEAN : NameValidate(Main, ok)
    \/ \E ok \in BOOLEAN, x \in StringImages \cup ModuleNameImages : NameRead(Main, ok, x)
    \/ \E ok \in BOOLEAN, x \in StatusWords : ReadValue(Main, ok, x)
    \/ Return(Main)

SpecDecode == Init /\ [][NextDecode]_vars

(***************************************************************************)
(* Any report: one call against a device whose count registers hold more   *)
(* than a chain within specification has (16 modules of 4 channels): up to *)
(* MaxReportedModules modules, up to MaxReportedChannels channels each.    *)
(* The transport may fail any read or write.                               *)
(***************************************************************************)
\* What the count registers of such a device hold: the same channel count
\* for each of 16 or MaxReportedModules modules.
ReportedTopologies ==
    {[i \in 1 .. n |-> k] : n \in {kMaxModuleNumber, MaxReportedModules},
                            k \in {4, MaxReportedChannels}}

InitReport ==
    /\ channels \in ReportedTopologies
    /\ mem = [a \in {} |-> 0]
    /\ calls = 0
    /\ proc = [p \in Procs |-> IdleProc]

NextReport ==
    \/ \E o \in Ops, m \in {0, 1, kMaxModuleNumber, MaxReportedModules},
          c \in {0, 1, 4, MaxReportedChannels}, v \in 0 .. 10 :
          calls = 0 /\ Call(Main, o, m, c, v)
    \/ \E ok \in BOOLEAN : ValidateModule(Main, ok)
    \/ \E ok \in BOOLEAN : ValidateChannel(Main, ok)
    \/ \E ok \in BOOLEAN : NameValidate(Main, ok)
    \/ \E ok \in BOOLEAN, x \in ModuleNameImages : NameRead(Main, ok, x)
    \/ \E ok \in BOOLEAN, x \in FewStatusWords \cup LoadCurrents : ReadValue(Main, ok, x)
    \/ \E ok \in BOOLEAN : ControlWrite(Main, ok)
    \/ \E ok \in BOOLEAN, x \in BusCycles : BusCycle(Main, ok, x)
    \/ \E ok \in BOOLEAN : UnlockChannel(Main, ok)
    \/ \E ok \in BOOLEAN : UnlockGlobal(Main, ok)
    \/ \E ok \in BOOLEAN, settled \in BOOLEAN : WriteAttempt(Main, ok, settled)
    \/ \E ok \in BOOLEAN : Verify(Main, ok)
    \/ \E ok \in BOOLEAN : CleanupGlobal(Main, ok)
    \/ \E ok \in BOOLEAN : CleanupChannel(Main, ok)
    \/ \E ok \in BOOLEAN : RelockGlobal(Main, ok)
    \/ \E ok \in BOOLEAN : RelockChannel(Main, ok)
    \/ Return(Main)

SpecReport == InitReport /\ [][NextReport]_vars

(***************************************************************************)
(* Two callers: both processes call set_nominal_current on the same        *)
(* connection, for different channels of module 1, with nothing            *)
(* serializing them; their transport calls interleave one by one.  The     *)
(* transport is reliable here.                                             *)
(***************************************************************************)
\* The other process.
Other(p) == CHOOSE q \in Procs : q # p

NextConcurrent ==
    \/ \E p \in Procs, c \in 1 .. 2 :
          /\ calls < MaxCalls
          /\ proc[Other(p)].channel_number # c
          /\ Call(p, "set_nominal_current", 1, c, 10)
    \/ \E p \in Procs : ValidateModule(p, TRUE)
    \/ \E p \in Procs : ValidateChannel(p, TRUE)
    \/ \E p \in Procs : NameValidate(p, TRUE)
    \/ \E p \in Procs : NameRead(p, TRUE, Pack(AdjustableName))
    \/ \E p \in Procs, x \in BusCycles : BusCycle(p, TRUE, x)
    \/ \E p \in Procs : UnlockChannel(p, TRUE)
    \/ \E p \in Procs : UnlockGlobal(p, TRUE)
    \/ \E p \in Procs : WriteAttempt(p, TRUE, TRUE)
    \/ \E p \in Procs : Verify(p, TRUE)
    \/ \E p \in Procs : CleanupGlobal(p, TRUE)
    \/ \E p \in Procs : CleanupChannel(p, TRUE)
    \/ \E p \in Procs : RelockGlobal(p, TRUE)
    \/ \E p \in Procs : RelockChannel(p, TRUE)
    \/ \E p \in Procs : Return(p)

SpecConcurrent == Init /\ [][NextConcurrent]_vars

(***************************************************************************)
(* Notions the properties below are stated in.                             *)
(***************************************************************************)
\* The call process p is in, or has just ended, is a set_nominal_current.
InSet(p) == proc[p].op = "set_nominal_current"

\* Process p's call has ended and its result waits for the caller.
Ended(p) == proc[p].pc = "done"

ThrewInvalidArgument(p) == Ended(p) /\ proc[p].ret.kind = "throw"

ReturnedBool(p, b) ==
    Ended(p) /\ proc[p].ret.kind = "bool" /\ proc[p].ret.value = b

\* The lock state of the device as it is now.
GlobalLocked == Load(mem, global_lock_address) = 1

ChannelLocked(m, c) == Load(mem, \hC090 + (m - 1) * 4 + (c - 1)) = 1

\* Entry i of process p's lock writes is a write of value v to address a.
IsLockWrite(p, i, a, v) ==
    /\ i <= Len(proc[p].lockWrites)
    /\ proc[p].lockWrites[i].address = a
    /\ proc[p].lockWrites[i].value = v

\* Bit i of word w.
Bit(w, i) == (w \div (2 ^ i)) % 2 = 1

\* Sequence t occurs in sequence s.
Contains(s, t) ==
    \E i \in 1 .. (Len(s) - Len(t) + 1) : \A j \in 1 .. Len(t) : s[i + j - 1] = t[j]

(***************************************************************************)
(* C1.  Whenever a set_nominal_current that has issued its channel-unlock  *)
(* write returns, the global lock register and the lock register of its    *)
(* channel are both locked (1), whichever transport calls failed.          *)
(***************************************************************************)
C1_LocksRestoredOnEveryExit ==
    \A p \in Procs :
        (InSet(p) /\ Ended(p) /\ proc[p].lockWrites # <<>>)
        => /\ GlobalLocked
           /\ ChannelLocked(proc[p].module_number, proc[p].channel_number)

(***************************************************************************)
(* C2.  Every write of the nominal-current register is issued when the     *)
(* call's lock writes so far are exactly the channel-lock write of 0 and   *)
(* the global-lock write of 0, both accepted (so no re-lock write has been *)
(* issued), and both lock registers are open.                              *)
(***************************************************************************)
C2_NominalWriteOnlyWhileUnlocked ==
    [][\A p \in Procs :
          proc'[p].nomWrites > proc[p].nomWrites
          => /\ Len(proc[p].lockWrites) = 2
             /\ IsLockWrite(p, 1, \hC090 + (proc[p].module_number - 1) * 4
                                        + (proc[p].channel_number - 1), 0)
             /\ proc[p].lockWrites[1].ok
             /\ IsLockWrite(p, 2, \hC001, 0)
             /\ proc[p].lockWrites[2].ok
             /\ ~GlobalLocked
             /\ ~ChannelLocked(proc[p].module_number, proc[p].channel_number)]_vars

\* A second write of the nominal current has been issued and awaits its
\* read-back.
C2_Witness ==
    /\ InSet(Main)
    /\ proc[Main].pc = "verify"
    /\ proc[Main].nomWrites = 2
    /\ ~GlobalLocked

\* Process p's set_nominal_current has ended after both unlock writes were
\* accepted and kRetries writes without a read-back equal to the value.
Exhausted(p) ==
    /\ InSet(p) /\ Ended(p)
    /\ Len(proc[p].lockWrites) >= 2
    /\ proc[p].lockWrites[1].ok /\ proc[p].lockWrites[2].ok
    /\ proc[p].nomWrites = 5
    /\ ~proc[p].matched

\* After its two unlock writes process p has written 1 to the global lock
\* register and then to its channel's lock register, and nothing else.
Relocked(p) ==
    /\ Len(proc[p].lockWrites) = 4
    /\ IsLockWrite(p, 3, \hC001, 1)
    /\ IsLockWrite(p, 4, \hC090 + (proc[p].module_number - 1) * 4
                               + (proc[p].channel_number - 1), 1)

(***************************************************************************)
(* C3 as claimed.  After exhausted verification set_nominal_current        *)
(* reports failure, has written 1 to the global and then to the channel    *)
(* lock register, and both lock registers are locked.                      *)
(***************************************************************************)
C3_ExhaustionEndsLocked ==
    \A p \in Procs :
        Exhausted(p)
        => /\ ReturnedBool(p, FALSE)
           /\ Relocked(p)
           /\ GlobalLocked
           /\ ChannelLocked(proc[p].module_number, proc[p].channel_number)

(***************************************************************************)
(* C3 as amended.  After exhausted verification set_nominal_current        *)
(* reports failure and has issued a write of 1 to the global and then to   *)
(* the channel lock register; each lock register whose re-lock write the   *)
(* transport accepted is locked.                                           *)
(***************************************************************************)
C3_ExhaustionStillRelocks ==
    \A p \in Procs :
        Exhausted(p)
        => /\ ReturnedBool(p, FALSE)
           /\ Relocked(p)
           /\ proc[p].lockWrites[3].ok => GlobalLocked
           /\ proc[p].lockWrites[4].ok
                  => ChannelLocked(proc[p].module_number, proc[p].channel_number)

\* Verification was exhausted by five accepted writes and both re-lock
\* writes were accepted.
C3_Witness ==
    /\ Exhausted(Main)
    /\ Relocked(Main)
    /\ proc[Main].lockWrites[3].ok /\ proc[Main].lockWrites[4].ok
    /\ GlobalLocked
    /\ ChannelLocked(proc[Main].module_number, proc[Main].channel_number)

(***************************************************************************)
(* C4.  When every lock and unlock write is accepted and a read-back       *)
(* equals the requested value, at attempt k, set_nominal_current reports   *)
(* success after exactly k writes of the nominal-current register,         *)
(* 1 <= k <= 5, and both lock registers are locked.                        *)
(***************************************************************************)
C4_SuccessAfterKWrites ==
    \A p \in Procs :
        (/\ InSet(p) /\ Ended(p)
         /\ proc[p].matched
         /\ \A i \in 1 .. Len(proc[p].lockWrites) : proc[p].lockWrites[i].ok)
        => /\ ReturnedBool(p, TRUE)
           /\ proc[p].nomWrites = proc[p].attempt + 1
           /\ proc[p].nomWrites \in 1 .. 5
           /\ Relocked(p)
           /\ GlobalLocked
           /\ ChannelLocked(proc[p].module_number, proc[p].channel_number)

\* Success at the third attempt: three writes, locks locked.
C4_Witness ==
    /\ InSet(Main)
    /\ ReturnedBool(Main, TRUE)
    /\ proc[Main].matched
    /\ proc[Main].nomWrites = 3
    /\ GlobalLocked
    /\ ChannelLocked(proc[Main].module_number, proc[Main].channel_number)

(***************************************************************************)
(* C5.  When the product name read for the target module contains the      *)
(* dial-only model name, set_nominal_current throws and has written no     *)
(* register.                                                               *)
(***************************************************************************)
C5_DialOnlyRefused ==
    [][\A p \in Procs :
          (/\ InSet(p)
           /\ proc[p].pc = "name_read"
           /\ proc'[p].pc # "name_read"
           /\ proc'[p].raw.ok
           /\ Contains(DecodeString32(proc'[p].raw.value), DialOnlyName))
          => /\ proc'[p].pc = "done"
             /\ proc'[p].ret.kind = "throw"
             /\ proc'[p].touched = {}
             /\ proc'[p].lockWrites = <<>>
             /\ proc'[p].nomWrites = 0
             /\ mem' = mem]_vars

\* set_nominal_current for module 2 has thrown on a 32-byte name that
\* contains the dial-only model name; the device is as it was.
C5_Witness ==
    /\ InSet(Main)
    /\ ThrewInvalidArgument(Main)
    /\ proc[Main].raw.ok
    /\ proc[Main].raw.address = \h1020
    /\ Len(DecodeString32(proc[Main].raw.value)) = 32
    /\ Contains(DecodeString32(proc[Main].raw.value), DialOnlyName)
    /\ proc[Main].touched = {}
    /\ DOMAIN mem = {}

\* The operations indexed by module and channel.
IsIndexed(p) ==
    proc[p].op \in {"set_nominal_current", "get_nominal_current",
                    "get_channel_status", "get_load_current", "control_channel"}

\* The channel count the device reports now for module m.
DeviceChannelCount(m) == IF m \in 1 .. Len(channels) THEN channels[m] ELSE 0

(***************************************************************************)
(* C6.  An indexed operation whose module number is outside                *)
(* 1..connected_module_count, or whose channel number is outside           *)
(* 1..channel_count(module), when validated, throws, having written no     *)
(* register; and no indexed operation writes a register before its         *)
(* validation has passed.                                                  *)
(***************************************************************************)
C6_InvalidIndexRejected ==
    [][\A p \in Procs :
          IsIndexed(p)
          => /\ (/\ proc[p].pc = "validate_module"
                 /\ proc'[p].pc # "validate_module"
                 /\ (proc[p].module_number < 1
                     \/ proc[p].module_number > Len(channels)))
                => /\ proc'[p].pc = "done" /\ proc'[p].ret.kind = "throw"
                   /\ proc'[p].touched = {} /\ mem' = mem
             /\ (/\ proc[p].pc = "validate_channel"
                 /\ proc'[p].pc # "validate_channel"
                 /\ (proc[p].channel_number < 1
                     \/ proc[p].channel_number
                            > DeviceChannelCount(proc[p].module_number)))
                => /\ proc'[p].pc = "done" /\ proc'[p].ret.kind = "throw"
                   /\ proc'[p].touched = {} /\ mem' = mem
             /\ (proc'[p].touched # {} \/ mem' # mem)
                => proc[p].validated]_vars

\* control_channel(module 1, channel 5) has thrown, nothing written, on a
\* device that reported 4 channels for module 1.
C6_Witness ==
    /\ proc[Main].op = "control_channel"
    /\ proc[Main].module_number = 1
    /\ proc[Main].channel_number = 5
    /\ ThrewInvalidArgument(Main)
    /\ proc[Main].raw = [ok |-> TRUE, address |-> \h2001, value |-> 4]
    /\ proc[Main].touched = {}
    /\ DOMAIN mem = {}

(***************************************************************************)
(* C7.  Each call decides by the counts the device reports at the time of  *)
(* its own validation: it passes validate_module_number only with          *)
(* 1 <= module <= the present module count, passes                         *)
(* validate_channel_number only with 1 <= channel <= the module's present  *)
(* channel count, and is rejected there only when the number is outside    *)
(* that present range or the read failed.                                  *)
(***************************************************************************)
C7_ValidationUsesLiveTopology ==
    [][\A p \in Procs :
          IsIndexed(p)
          => /\ (proc[p].pc = "validate_module" /\ proc'[p].pc = "validate_channel")
                => proc[p].module_number \in 1 .. Len(channels)
             /\ (proc[p].pc = "validate_module" /\ proc'[p].pc = "done")
                => \/ ~proc'[p].raw.ok
                   \/ proc[p].module_number \notin 1 .. Len(channels)
             /\ (proc[p].pc = "validate_channel" /\ proc'[p].validated)
                => proc[p].channel_number
                       \in 1 .. DeviceChannelCount(proc[p].module_number)
             /\ (proc[p].pc = "validate_channel" /\ proc'[p].pc = "done")
                => \/ ~proc'[p].raw.ok
                   \/ proc[p].module_number > 16
                   \/ proc[p].channel_number
                          \notin 1 .. DeviceChannelCount(proc[p].module_number)]_vars

\* The previous call passed validation with (module 1, channel 3); after a
\* change of the chain this call, with the same numbers, has been rejected
\* on a channel count of 2 read from the device.
C7_Witness ==
    /\ IsIndexed(Main)
    /\ proc[Main].lastAccepted = <<1, 3>>
    /\ proc[Main].module_number = 1
    /\ proc[Main].channel_number = 3
    /\ ThrewInvalidArgument(Main)
    /\ ~proc[Main].validated
    /\ proc[Main].raw = [ok |-> TRUE, address |-> \h2001, value |-> 2]

\* The pairs (module, channel) of the topology the device reports now.
Discovered ==
    {mc \in (1 .. Len(channels)) \X (1 .. 4) : mc[2] <= channels[mc[1]]}

\* base + (module - 1) * 4 + (channel - 1)
Mapped(base, m, c) == base + (m - 1) * 4 + (c - 1)

(***************************************************************************)
(* C8.  The register an indexed operation accesses is                      *)
(* base + (module-1)*4 + (channel-1), and for each register range the      *)
(* computed address is different for different (module, channel) pairs of  *)
(* the discovered topology.                                                *)
(***************************************************************************)
C8_AddressMapping ==
    /\ \A p \in Procs :
          LET s == proc[p]
              m == s.module_number
              c == s.channel_number
          IN  (Ended(p) /\ s.validated /\ s.ret.kind # "throw")
              => CASE s.op = "get_nominal_current" -> s.raw.address = Mapped(\hC050, m, c)
                   [] s.op = "get_channel_status" -> s.raw.address = Mapped(\h6010, m, c)
                   [] s.op = "get_load_current" -> s.raw.address = Mapped(\h6050, m, c)
                   [] s.op = "control_channel" -> s.touched = {Mapped(\hC010, m, c)}
                   [] s.op = "set_nominal_current" ->
                        /\ s.touched \subseteq
                              {\hC001, Mapped(\hC090, m, c), Mapped(\hC050, m, c)}
                        /\ s.lockWrites[1].address = Mapped(\hC090, m, c)
                        /\ s.nomWrites > 0 => Mapped(\hC050, m, c) \in s.touched
    /\ \A a \in Discovered, b \in Discovered :
          a # b
          => /\ nominal_current_address(a[1], a[2]) # nominal_current_address(b[1], b[2])
             /\ channel_lock_address(a[1], a[2]) # channel_lock_address(b[1], b[2])
             /\ channel_status_address(a[1], a[2]) # channel_status_address(b[1], b[2])
             /\ load_current_address(a[1], a[2]) # load_current_address(b[1], b[2])
             /\ control_address(a[1], a[2]) # control_address(b[1], b[2])

\* On a chain of two modules, the first with 4 channels, the nominal current
\* of (module 2, channel 1) has been written at 0xC054 and verified.
C8_Witness ==
    /\ Len(channels) = 2 /\ channels[1] = 4
    /\ InSet(Main)
    /\ proc[Main].module_number = 2
    /\ proc[Main].channel_number = 1
    /\ ReturnedBool(Main, TRUE)
    /\ proc[Main].raw = [ok |-> TRUE, address |-> \hC054, value |-> 10]
    /\ Load(mem, \hC054) = 10

(***************************************************************************)
(* C9.  Every status word read successfully decodes, and flag i of the     *)
(* result is set iff bit i of the word is set: bits 0..4 for the global    *)
(* status, bits 0..6 for a channel status; no other bit has any effect.    *)
(***************************************************************************)
C9_StatusDecodingBitExact ==
    \A p \in Procs :
        LET s == proc[p]
            w == s.raw.value
        IN  /\ (Ended(p) /\ s.op = "get_global_status")
               => /\ s.ret.kind = "optional_global_status"
                  /\ s.ret.value.has = s.raw.ok
                  /\ s.raw.ok
                     => s.ret.value.value =
                           [undervoltage |-> Bit(w, 0),
                            overvoltage |-> Bit(w, 1),
                            cumulative_channel_error |-> Bit(w, 2),
                            cumulative_80_warning |-> Bit(w, 3),
                            system_current_too_high |-> Bit(w, 4)]
            /\ (Ended(p) /\ s.op = "get_channel_status" /\ s.validated)
               => /\ s.ret.kind = "optional_channel_status"
                  /\ s.ret.value.has = s.raw.ok
                  /\ s.raw.ok
                     => s.ret.value.value =
                           [warning_80_percent |-> Bit(w, 0),
                            overload |-> Bit(w, 1),
                            short_circuit |-> Bit(w, 2),
                            hardware_error |-> Bit(w, 3),
                            voltage_error |-> Bit(w, 4),
                            module_current_too_high |-> Bit(w, 5),
                            system_current_too_high |-> Bit(w, 6)]

\* The channel status word 0xFFD5 (bits 0, 2, 4, 6 and every reserved bit)
\* has been decoded.
C9_Witness ==
    /\ proc[Main].op = "get_channel_status"
    /\ Ended(Main)
    /\ proc[Main].raw.ok
    /\ proc[Main].raw.value = \hFFD5
    /\ proc[Main].ret.value.has
    /\ proc[Main].ret.value.value.short_circuit
    /\ ~proc[Main].ret.value.value.overload

\* Byte i (1..32) of 16 registers, the high byte of each register first.
ByteOf(values, i) ==
    IF i % 2 = 1 THEN (values[(i + 1) \div 2] \div 256) % 256
    ELSE values[i \div 2] % 256

\* The registers of "ABC" followed by zeros.
AbcRegisters == [i \in 1 .. 16 |-> IF i = 1 THEN \h4142 ELSE IF i = 2 THEN \h4300 ELSE 0]

(***************************************************************************)
(* C10.  A string field read successfully decodes to the bytes of its 16   *)
(* registers, high byte of each register first, up to and without the      *)
(* first null byte: all 32 bytes when there is none, exactly "ABC" for the *)
(* registers of "ABC" followed by zeros.                                   *)
(***************************************************************************)
C10_StringDecoding ==
    \A p \in Procs :
        LET s == proc[p]
            r == s.ret.value.value
            v == s.raw.value
        IN  (Ended(p) /\ s.ret.kind = "optional_string")
            => /\ s.ret.value.has = s.raw.ok
               /\ s.raw.ok
                  => /\ Len(r) <= 32
                     /\ \A i \in 1 .. Len(r) : r[i] = ByteOf(v, i) /\ r[i] # 0
                     /\ Len(r) < 32 => ByteOf(v, Len(r) + 1) = 0
                     /\ (\A i \in 1 .. 32 : ByteOf(v, i) # 0) => Len(r) = 32
                     /\ v = AbcRegisters => r = <<65, 66, 67>>

\* The registers of "ABC" followed by zeros have been decoded to "ABC".
C10_Witness ==
    /\ proc[Main].op = "get_product_name_power_module"
    /\ Ended(Main)
    /\ proc[Main].raw.ok
    /\ proc[Main].raw.value = AbcRegisters
    /\ proc[Main].ret.value.has
    /\ proc[Main].ret.value.value = <<65, 66, 67>>

\* A string field without a null byte has been decoded to its 32 bytes.
FullLengthStringDecoded ==
    /\ proc[Main].op = "get_product_name_power_module"
    /\ Ended(Main)
    /\ proc[Main].raw.ok
    /\ \A i \in 1 .. 32 : ByteOf(proc[Main].raw.value, i) # 0
    /\ proc[Main].ret.value.has
    /\ Len(proc[Main].ret.value.value) = 32

(***************************************************************************)
(* C11.  set_nominal_current returns true only if a read-back of the       *)
(* nominal-current register equalled the requested value and, after it,    *)
(* the write of 1 to the global lock register and then the write of 1 to   *)
(* the channel lock register both succeeded; the re-lock of the success    *)
(* path is never entered without a matching read-back.                     *)
(***************************************************************************)
C11_SuccessOnlyIfVerifiedAndRelocked ==
    \A p \in Procs :
        LET s == proc[p]
        IN  /\ (InSet(p) /\ s.pc \in {"relock_global", "relock_channel"})
               => /\ s.matched
                  /\ s.raw.ok /\ s.raw.value = s.nominal_current
                  /\ s.raw.address = Mapped(\hC050, s.module_number, s.channel_number)
            /\ (InSet(p) /\ ReturnedBool(p, TRUE))
               => /\ s.matched
                  /\ s.nomWrites >= 1
                  /\ Len(s.lockWrites) = 4
                  /\ IsLockWrite(p, 3, \hC001, 1) /\ s.lockWrites[3].ok
                  /\ IsLockWrite(p, 4, Mapped(\hC090, s.module_number, s.channel_number), 1)
                  /\ s.lockWrites[4].ok

\* Success at the second attempt, the first write not having been taken by
\* the device: the read-back matched and both re-lock writes succeeded.
C11_Witness ==
    /\ InSet(Main)
    /\ ReturnedBool(Main, TRUE)
    /\ proc[Main].nomWrites = 2
    /\ proc[Main].matched
    /\ Len(proc[Main].lockWrites) = 4
    /\ proc[Main].lockWrites[3].ok /\ proc[Main].lockWrites[4].ok

\* The operations that take a module number.
IsModuleIndexed(p) == IsIndexed(p) \/ proc[p].op = "get_product_name_module"

(***************************************************************************)
(* C12.  A module-indexed operation (the five indexed ones and             *)
(* get_product_name_module) called with a module number above 16 throws,   *)
(* having read nothing but the count register 0x2000 and written nothing,  *)
(* whatever module count the device reports.                               *)
(***************************************************************************)
C12_ModuleNumberAtMost16 ==
    \A p \in Procs :
        (IsModuleIndexed(p) /\ proc[p].module_number > 16 /\ proc[p].pc # "idle")
        => /\ proc[p].pc \in {"validate_module", "validate_channel", "name_validate", "done"}
           /\ Ended(p) => ThrewInvalidArgument(p)
           /\ proc[p].raw.address \in {0, \h2000}
           /\ proc[p].touched = {}

\* Both unlock writes of process p's call have succeeded.
BothUnlocked(p) ==
    /\ Len(proc[p].lockWrites) >= 2
    /\ proc[p].lockWrites[1].ok /\ proc[p].lockWrites[1].value = 0
    /\ proc[p].lockWrites[2].ok /\ proc[p].lockWrites[2].value = 0

(***************************************************************************)
(* C13.  A set_nominal_current whose two unlock writes succeeded has, when *)
(* it returns, on the success path and on the failure path alike, issued   *)
(* exactly one write of 1 to the global lock register and after it exactly *)
(* one write of 1 to the channel lock register, also when the global       *)
(* re-lock write failed.                                                   *)
(***************************************************************************)
C13_CleanupOnBothPaths ==
    \A p \in Procs :
        (InSet(p) /\ Ended(p) /\ BothUnlocked(p))
        => /\ Len(proc[p].lockWrites) = 4
           /\ IsLockWrite(p, 3, \hC001, 1)
           /\ IsLockWrite(p, 4, Mapped(\hC090, proc[p].module_number,
                                       proc[p].channel_number), 1)

(***************************************************************************)
(* C14.  The write/verify loop makes at most 5 attempts, one write of the  *)
(* nominal-current register each: a write that fails consumes its attempt  *)
(* without a read-back, a read-back that is unreadable or differs consumes *)
(* its attempt, a read-back that equals the written value ends the loop at *)
(* once; no nominal-current write follows a matching read-back and no call *)
(* makes more than 5 such writes.                                          *)
(***************************************************************************)
C14_AtMostFiveAttempts ==
    [][\A p \in Procs :
          LET s == proc[p]
              t == proc'[p]
              address == Mapped(\hC050, s.module_number, s.channel_number)
          IN  /\ ((s.pc = "write_attempt" /\ t # s)
                  \/ (s.pc # "done" /\ t.nomWrites # s.nomWrites))
                 => /\ s.pc = "write_attempt"
                    /\ s.attempt < 5 /\ s.nomWrites = s.attempt
                    /\ ~s.matched
                    /\ t.nomWrites = s.nomWrites + 1 /\ t.nomWrites <= 5
                    /\ \/ t.pc = "verify" /\ t.attempt = s.attempt
                       \/ /\ t.attempt = s.attempt + 1 /\ t.raw = s.raw
                          /\ t.pc = IF t.attempt < 5 THEN "write_attempt"
                                    ELSE "cleanup_global"
              /\ (s.pc = "verify" /\ t.pc # "verify")
                 => /\ t.raw.address = address
                    /\ t.nomWrites = s.nomWrites
                    /\ IF t.raw.ok /\ t.raw.value = s.nominal_current
                       THEN t.pc = "relock_global" /\ t.attempt = s.attempt
                       ELSE /\ t.attempt = s.attempt + 1
                            /\ t.pc = IF t.attempt < 5 THEN "write_attempt"
                                      ELSE "cleanup_global"]_vars

\* Five writes have been issued and the fifth attempt has been consumed by an
\* unreadable read-back: the loop is left without a match.
C14_Witness ==
    /\ InSet(Main)
    /\ proc[Main].pc = "cleanup_global"
    /\ proc[Main].attempt = 5
    /\ proc[Main].nomWrites = 5
    /\ ~proc[Main].matched
    /\ proc[Main].raw.address = Mapped(\hC050, proc[Main].module_number,
                                       proc[Main].channel_number)
    /\ ~proc[Main].raw.ok

(***************************************************************************)
(* C15.  When the channel-unlock write or the global-unlock write fails,   *)
(* set_nominal_current returns false with that write as its last register  *)
(* access: no nominal-current write, no read-back, no re-lock write.       *)
(* After a failed global-unlock write the channel lock register holds 0.   *)
(***************************************************************************)
C15_UnlockFailureReturnsAtOnce ==
    \A p \in Procs :
        LET s == proc[p]
            lock == Mapped(\hC090, s.module_number, s.channel_number)
        IN  /\ (InSet(p) /\ Len(s.lockWrites) >= 1 /\ ~s.lockWrites[1].ok)
               => /\ ReturnedBool(p, FALSE)
                  /\ Len(s.lockWrites) = 1
                  /\ s.nomWrites = 0
                  /\ s.touched = {lock}
                  /\ s.raw.address = \h6006
                  /\ mem = [a \in {} |-> 0]
            /\ (InSet(p) /\ Len(s.lockWrites) >= 2 /\ ~s.lockWrites[2].ok)
               => /\ ReturnedBool(p, FALSE)
                  /\ Len(s.lockWrites) = 2
                  /\ IsLockWrite(p, 1, lock, 0) /\ s.lockWrites[1].ok
                  /\ IsLockWrite(p, 2, \hC001, 0)
                  /\ s.nomWrites = 0
                  /\ s.touched = {lock, \hC001}
                  /\ s.raw.address = \h6006
                  /\ Load(mem, lock) = 0
                  /\ GlobalLocked

\* The global-unlock write has failed after the channel-unlock write
\* succeeded: false returned, the channel lock register left at 0.
C15_Witness ==
    /\ InSet(Main)
    /\ ReturnedBool(Main, FALSE)
    /\ Len(proc[Main].lockWrites) = 2
    /\ proc[Main].lockWrites[1].ok
    /\ ~proc[Main].lockWrites[2].ok
    /\ Load(mem, Mapped(\hC090, proc[Main].module_number,
                        proc[Main].channel_number)) = 0

(***************************************************************************)
(* C16.  Before its first lock write set_nominal_current reads register    *)
(* 0x6006 and blocks once, for the value read + 50 ms, or for 100 + 50 ms  *)
(* when the read fails; the failed read does not end the call, and the     *)
(* first lock write is issued only after this wait, nothing having been    *)
(* written before.                                                         *)
(***************************************************************************)
C16_BusCycleWaitBeforeLocks ==
    [][\A p \in Procs :
          LET s == proc[p]
              t == proc'[p]
          IN  /\ (s.pc = "bus_cycle" /\ t # s)
                 => /\ t.pc = "unlock_channel"
                    /\ t.raw.address = \h6006
                    /\ s.slept = 0
                    /\ t.slept = (IF t.raw.ok THEN t.raw.value ELSE 100) + 50
                    /\ t.touched = {} /\ mem' = mem
              /\ (InSet(p) /\ s.touched = {} /\ t.touched # {})
                 => /\ s.pc = "unlock_channel"
                    /\ s.raw.address = \h6006
                    /\ s.slept = (IF s.raw.ok THEN s.raw.value ELSE 100) + 50
                    /\ t.touched = {Mapped(\hC090, s.module_number, s.channel_number)}]_vars

\* Register 0x6006 could not be read; the call has waited 150 ms and has then
\* issued its first lock write.
C16_Witness ==
    /\ InSet(Main)
    /\ proc[Main].pc = "unlock_global"
    /\ proc[Main].raw = [ok |-> FALSE, address |-> \h6006, value |-> 0]
    /\ Len(proc[Main].lockWrites) = 1

(***************************************************************************)
(* C17.  Whenever set_nominal_current issues a register write (unlock,     *)
(* nominal-current or re-lock) after an earlier write of the same call, it *)
(* has blocked for at least 50 ms since that earlier write.                *)
(***************************************************************************)
C17_DelayBetweenWrites ==
    [][\A p \in Procs :
          LET s == proc[p]
              t == proc'[p]
          IN  (/\ InSet(p)
               /\ \/ Len(t.lockWrites) > Len(s.lockWrites)
                  \/ t.nomWrites > s.nomWrites
               /\ s.touched # {})
              => s.slept >= 50]_vars

\* The three registers a set_nominal_current of process p is to write.
OwnRegisters(p) ==
    {\hC001,
     Mapped(\hC090, proc[p].module_number, proc[p].channel_number),
     Mapped(\hC050, proc[p].module_number, proc[p].channel_number)}

(***************************************************************************)
(* C18.  A call of set_nominal_current issues writes to the global lock    *)
(* register, the target channel's lock register and the target channel's   *)
(* nominal-current register only, and no step of it changes the content of *)
(* any other register of the device.                                       *)
(***************************************************************************)
C18_WritesOnlyOwnRegisters ==
    [][\A p \in Procs :
          (InSet(p) /\ proc[p].pc # "done")
          => /\ proc'[p].touched \subseteq OwnRegisters(p)
             /\ \A a \in (DOMAIN mem) \cup (DOMAIN mem') :
                   Load(mem', a) # Load(mem, a) => a \in OwnRegisters(p)]_vars

\* set_nominal_current(1, 2, 10) has succeeded: it has written 0xC001, 0xC091
\* and 0xC051, and 0xC051 is the one register that differs from before.
C18_Witness ==
    /\ InSet(Main)
    /\ ReturnedBool(Main, TRUE)
    /\ proc[Main].module_number = 1 /\ proc[Main].channel_number = 2
    /\ proc[Main].touched = {\hC001, \hC091, \hC051}
    /\ DOMAIN mem = {\hC051}
    /\ mem[\hC051] = 10

\* The pairs (module, channel) validation accepts on the counts the device
\* reports now.
Accepted ==
    UNION {{<<m, c>> : c \in 1 .. channels[m]} :
              m \in {n \in 1 .. Len(channels) : n <= 16}}

(***************************************************************************)
(* C19.  For the (module, channel) an indexed operation has passed         *)
(* validation with, whatever counts the device reports, the address in     *)
(* each register block lies within the 64 registers from the block's base; *)
(* its nominal-current address is no accepted pair's channel-lock or       *)
(* on/off-control address, and its channel-lock address is not the global  *)
(* lock register.                                                          *)
(***************************************************************************)
C19_AddressesStayInBlock ==
    \A p \in Procs :
        LET m == proc[p].module_number
            c == proc[p].channel_number
        IN  (IsIndexed(p) /\ proc[p].validated)
            => /\ nominal_current_address(m, c) \in \hC050 .. \hC08F
               /\ channel_lock_address(m, c) \in \hC090 .. \hC0CF
               /\ control_address(m, c) \in \hC010 .. \hC04F
               /\ channel_status_address(m, c) \in \h6010 .. \h604F
               /\ load_current_address(m, c) \in \h6050 .. \h608F
               /\ channel_lock_address(m, c) # \hC001
               /\ \A b \in Accepted :
                     /\ nominal_current_address(m, c) # channel_lock_address(b[1], b[2])
                     /\ nominal_current_address(m, c) # control_address(b[1], b[2])

(***************************************************************************)
(* C20.  set_nominal_current throws at its dial-only check only when the   *)
(* product name was read and contains the dial-only model name; when the   *)
(* read of the product name registers fails, the check raises no error and *)
(* the call goes on to the bus-cycle wait, the unlocking and the write.    *)
(***************************************************************************)
C20_DialCheckNeedsReadableName ==
    [][\A p \in Procs :
          LET s == proc[p]
              t == proc'[p]
          IN  (InSet(p) /\ s.pc = "name_read" /\ t # s)
              => /\ t.raw.address = \h1010 + (s.module_number - 1) * 16
                 /\ IF t.raw.ok /\ Contains(DecodeString32(t.raw.value), DialOnlyName)
                    THEN t.pc = "done" /\ t.ret.kind = "throw"
                    ELSE t.pc = "bus_cycle" /\ t.ret.kind = "none"
                 /\ ~t.raw.ok => t.pc = "bus_cycle"]_vars

\* The product name of module 1 could not be read; the call goes on.
C20_Witness ==
    /\ InSet(Main)
    /\ proc[Main].pc = "bus_cycle"
    /\ proc[Main].raw.address = \h1010
    /\ ~proc[Main].raw.ok

\* The content of the nominal-current register of process p's channel.
NominalRegister(p) ==
    Load(mem, Mapped(\hC050, proc[p].module_number, proc[p].channel_number))

(***************************************************************************)
(* C21.  A false result of set_nominal_current does not mean the           *)
(* nominal-current register is as it was.  The call changes the register   *)
(* only by a write of the requested value and never writes an earlier      *)
(* value back: when it returns false after a matching read-back (a re-lock *)
(* write failed) the register holds the requested value, and when it       *)
(* returns false after five unverified attempts the register holds the     *)
(* requested value if the device took one of the writes, its content from  *)
(* before the call otherwise.                                              *)
(***************************************************************************)
C21_FailureKeepsWrittenValue ==
    [][\A p \in Procs :
          LET s == proc[p]
              t == proc'[p]
              address == Mapped(\hC050, s.module_number, s.channel_number)
          IN  (InSet(p) /\ s.pc # "done")
              => /\ Load(mem', address) # Load(mem, address)
                    => /\ s.pc = "write_attempt"
                       /\ Load(mem', address) = s.nominal_current
                 /\ (t.pc = "done" /\ t.ret.kind = "bool" /\ t.ret.value = FALSE
                        /\ t.matched)
                    => Load(mem', address) = s.nominal_current
                 /\ (t.pc = "done" /\ t.ret.kind = "bool" /\ t.ret.value = FALSE
                        /\ ~t.matched)
                    => Load(mem', address) \in {s.nominal_current, 6}]_vars

\* The write was verified, the global re-lock write then failed: false is
\* returned and the register holds the requested value, not the 6 from
\* before the call.
C21_Witness ==
    /\ InSet(Main)
    /\ ReturnedBool(Main, FALSE)
    /\ proc[Main].matched
    /\ Len(proc[Main].lockWrites) = 3
    /\ ~proc[Main].lockWrites[3].ok
    /\ NominalRegister(Main) = proc[Main].nominal_current
    /\ NominalRegister(Main) # 6

\* Verification exhausted (no read-back could be read) although the device
\* took a write: false is returned and the register holds the new value.
ExhaustedWithNewValue ==
    /\ Exhausted(Main)
    /\ ReturnedBool(Main, FALSE)
    /\ NominalRegister(Main) = proc[Main].nominal_current
    /\ NominalRegister(Main) # 6

\* Process q has, in the call it is in or has just ended, written 1 to the
\* global lock register.
WroteGlobalLock(q) ==
    \E i \in 1 .. Len(proc[q].lockWrites) :
        proc[q].lockWrites[i] = [address |-> \hC001, value |-> 1, ok |-> TRUE]

(***************************************************************************)
(* C22.  set_nominal_current has no mutual exclusion of its own.  With two *)
(* invocations for different channels interleaved transport call by        *)
(* transport call, an invocation at its nominal-current write is never     *)
(* held back by what the other invocation is doing, and it issues that     *)
(* write also while the global lock register is locked, which happens      *)
(* exactly through the other invocation: the writer has itself opened both *)
(* locks, the other invocation has written 1 to the global lock register   *)
(* since, and the device does not take the write.                          *)
(***************************************************************************)
C22_NoMutualExclusion ==
    /\ [](\A p \in Procs :
             (InSet(p) /\ proc[p].pc = "write_attempt")
             => ENABLED WriteAttempt(p, TRUE, TRUE))
    /\ [][\A p \in Procs :
             LET s == proc[p]
                 t == proc'[p]
                 address == Mapped(\hC050, s.module_number, s.channel_number)
             IN  (InSet(p) /\ t.nomWrites = s.nomWrites + 1 /\ GlobalLocked)
                 => /\ BothUnlocked(p)
                    /\ \A i \in 1 .. Len(s.lockWrites) : s.lockWrites[i].value = 0
                    /\ \E q \in Procs \ {p} :
                          \/ WroteGlobalLock(q)
                          \/ proc[q].lastAccepted # <<0, 0>>
                    /\ Load(mem', address) = Load(mem, address)]_vars

\* Process 2, for channel 2, has issued its first nominal-current write
\* after process 1, for channel 1, had written 1 to the global lock register:
\* both of its own unlock writes had succeeded, the global lock register was
\* at 1, and the device has not taken the write.
C22_Witness ==
    /\ InSet(1) /\ InSet(2)
    /\ proc[1].channel_number = 1 /\ proc[2].channel_number = 2
    /\ proc[1].module_number = proc[2].module_number
    /\ WroteGlobalLock(1)
    /\ proc[2].pc = "verify"
    /\ proc[2].nomWrites = 1
    /\ BothUnlocked(2) /\ Len(proc[2].lockWrites) = 2
    /\ GlobalLocked
    /\ NominalRegister(2) = 6
    /\ Load(mem, \hC091) = 0

============================================================================
